---- MODULE Spec2Model ----
(***************************************************************************)
(* Verification model of the med-scribe classification front end:          *)
(*   - attribute rule trees: the ConditionBuilder editing operations, the  *)
(*     two rule validators and the rule-tree evaluator of the pipeline;    *)
(*   - score handling: the pipeline's score aggregation, the mapping of a  *)
(*     backend classification response to a ClassificationResult and the   *)
(*     candidate columns of the Classify page;                             *)
(*   - the classification store, the classification service and the        *)
(*     Classify page handlers that start a classification.                 *)
(***************************************************************************)
EXTENDS Integers, Sequences, FiniteSets, TLC

VARIABLES
    editedRule,     \* AttributeEditor: editedAttribute.requiredAttributes
    hasChanges,     \* AttributeEditor: hasChanges
    putRequest,     \* the rule in the PUT /attributes request sent by this step
    evaluation,     \* the rule evaluation returned by this step
    exchange,       \* one classification: pipeline inputs, response, result, page columns
    config,             \* classification store: config
    currentResult,      \* classification store: currentResult
    resultHistory,      \* classification store: resultHistory
    isClassifying,      \* classification store: isClassifying
    error,              \* classification store: error
    pdfExtractionResult,\* classification store: pdfExtractionResult
    page,               \* Classify page: documentText, selectedFile, selectedDataset
    calls,              \* the classifyText / classifyPDF calls in flight
    completion,         \* the call that returned in this step
    panel,          \* ClassificationOptions: attributesExist, checkingAttributes
    checks,         \* the checkAttributes runs awaiting attributesExist, oldest first
    checked,        \* the checkAttributes run that returned in this step
    emitted,        \* the configs handed to onConfigChange in this step, in order
    editor,         \* DatasetEditor: mode, classes, errors.classes, isAutoSaving
    cards,          \* ClassCard of each class: isEditing
    debounced,      \* window.autoSaveTimeout while pending: its class list, the removal timers older than it
    removalTimers,  \* the class lists of the pending class removal timers, oldest first
    requests,       \* the number of updateDatasetData calls awaiting their answer
    lastSent,       \* the class list last handed to updateDatasetData
    attributeStore, \* attribute store: isGenerating, generationProgress, error, attributes
    generations,    \* the generateAttributes calls in flight
    apiClient,      \* ApiClient: the configuration given, retryAttempts, retryDelay
    apiCall         \* one ApiClient.request call: its position, attempts and result

ruleVars == <<editedRule, hasChanges, putRequest, evaluation>>

scoreVars == <<exchange>>

storeVars == <<config, currentResult, resultHistory, isClassifying, error,
               pdfExtractionResult, page, calls, completion>>

panelVars == <<panel, checks, checked, emitted>>

editorVars == <<editor, cards, debounced, removalTimers, requests, lastSent>>

generationVars == <<attributeStore, generations>>

clientVars == <<apiClient, apiCall>>

serviceVars == <<generationVars, clientVars>>

\* What the attribute editor and the rule evaluation leave alone.
nonRuleVars == <<scoreVars, storeVars, panelVars, editorVars, serviceVars>>

\* What the score handling of one classification leaves alone.
nonScoreVars == <<ruleVars, storeVars, panelVars, editorVars, serviceVars>>

\* What the classification store and the Classify page leave alone.
nonStoreVars == <<ruleVars, scoreVars, panelVars, editorVars, serviceVars>>

\* What the classification options panel leaves alone, the store's config
\* and the selected dataset apart.
nonPanelVars == <<ruleVars, scoreVars, currentResult, resultHistory, isClassifying,
                  error, pdfExtractionResult, calls, completion, editorVars,
                  serviceVars>>

\* What the dataset editor leaves alone.
nonEditorVars == <<ruleVars, scoreVars, storeVars, panelVars, serviceVars>>

\* What the attribute store's generateAttributes leaves alone.
nonGenerationVars == <<ruleVars, scoreVars, storeVars, panelVars, editorVars, clientVars>>

\* What the ApiClient leaves alone.
nonClientVars == <<ruleVars, scoreVars, storeVars, panelVars, editorVars, generationVars>>

vars == <<ruleVars, scoreVars, storeVars, panelVars, editorVars, serviceVars>>

None == [none |-> TRUE]

(***************************************************************************)
(* Bounds of the rule-tree model.                                          *)
(***************************************************************************)
MaxNodes == 4
MaxDepth == 3

\* Condition texts: empty, whitespace only, and a non-empty predicate.
Descriptions == {"", " ", "c"}

\* String.prototype.trim on the condition texts of the model.
Trim(s) == IF s = " " THEN "" ELSE s

Operators == {"AND", "OR"}

(***************************************************************************)
(* AttributeRule trees.  A node is a record [kind, desc, kids]: kind is    *)
(* "AND" or "OR" for an AttributeRule (kids are its conditions, desc is    *)
(* unused) and "leaf" for a string condition (desc is the string).         *)
(***************************************************************************)
Leaf(s) == [kind |-> "leaf", desc |-> s, kids |-> <<>>]
Rule(op, conds) == [kind |-> op, desc |-> "", kids |-> conds]

IsRule(n) == n.kind \in Operators

Max2(a, b) == IF a >= b THEN a ELSE b

RECURSIVE SumSeq(_)
SumSeq(s) == IF s = <<>> THEN 0 ELSE Head(s) + SumSeq(Tail(s))

RECURSIVE MaxSeq(_)
MaxSeq(s) == IF s = <<>> THEN 0 ELSE Max2(Head(s), MaxSeq(Tail(s)))

RECURSIVE NodeCount(_)
NodeCount(n) == 1 + SumSeq([i \in 1..Len(n.kids) |-> NodeCount(n.kids[i])])

RECURSIVE Depth(_)
Depth(n) == 1 + MaxSeq([i \in 1..Len(n.kids) |-> Depth(n.kids[i])])

\* The paths (sequences of 1-based child indexes) of the rule nodes of n.
RECURSIVE RulePaths(_)
RulePaths(n) ==
    IF ~IsRule(n) THEN {}
    ELSE {<<>>} \cup UNION { { <<i>> \o p : p \in RulePaths(n.kids[i]) } : i \in 1..Len(n.kids) }

\* The paths of the leaves of n.
RECURSIVE LeafPaths(_)
LeafPaths(n) ==
    IF ~IsRule(n) THEN {<<>>}
    ELSE UNION { { <<i>> \o p : p \in LeafPaths(n.kids[i]) } : i \in 1..Len(n.kids) }

RECURSIVE SubAt(_, _)
SubAt(n, path) == IF path = <<>> THEN n ELSE SubAt(n.kids[Head(path)], Tail(path))

\* A nested ConditionBuilder reports its new rule to its parent through
\* onChange = updateCondition(index, newRule), up to the root.
RECURSIVE ReplaceAt(_, _, _)
ReplaceAt(n, path, new) ==
    IF path = <<>> THEN new
    ELSE [n EXCEPT !.kids[Head(path)] = ReplaceAt(n.kids[Head(path)], Tail(path), new)]

\* True when some rule node of n, at any depth, has no conditions.
HasEmptyRule(n) == \E p \in RulePaths(n) : SubAt(n, p).kids = <<>>


RECURSIVE ConcatAll(_)
ConcatAll(ss) == IF ss = <<>> THEN <<>> ELSE Head(ss) \o ConcatAll(Tail(ss))

(***************************************************************************)
(* AttributeService.validateAttributeRule.  The error messages are         *)
(* modelled by their kind; isValid is errors.length === 0.  A nested rule  *)
(* that is not valid contributes one error to its parent.                  *)
(***************************************************************************)
RECURSIVE validateAttributeRule(_)

\* validateAttributeRule with the recursion into nested rules left out.
validateAttributeRule_shallow(rule) ==
    LET opErr == IF rule.kind \notin {"AND", "OR"} THEN <<"operator">> ELSE <<>>
        lenErr == IF Len(rule.kids) = 0 THEN <<"no_conditions">> ELSE <<>>
        condErr(i) ==
            LET condition == rule.kids[i] IN
            IF condition.kind = "leaf"
            THEN IF Trim(condition.desc) = "" THEN <<"cannot_be_empty">> ELSE <<>>
            ELSE <<>>
        errors == opErr \o lenErr \o ConcatAll([i \in 1..Len(rule.kids) |-> condErr(i)])
    IN [isValid |-> Len(errors) = 0, errors |-> errors]

validateAttributeRule(rule) ==
    LET opErr == IF rule.kind \notin {"AND", "OR"} THEN <<"operator">> ELSE <<>>
        lenErr == IF Len(rule.kids) = 0 THEN <<"no_conditions">> ELSE <<>>
        condErr(i) ==
            LET condition == rule.kids[i] IN
            IF condition.kind = "leaf"
            THEN IF Trim(condition.desc) = "" THEN <<"cannot_be_empty">> ELSE <<>>
            ELSE IF ~validateAttributeRule(condition).isValid
                 THEN <<"nested_rule">> ELSE <<>>
        errors == opErr \o lenErr \o ConcatAll([i \in 1..Len(rule.kids) |-> condErr(i)])
    IN [isValid |-> Len(errors) = 0, errors |-> errors]

(***************************************************************************)
(* AttributeEditor.validateRule, the editor's own copy of the validation.  *)
(***************************************************************************)
RECURSIVE validateRule(_)
validateRule(rule) ==
    LET opErr == IF rule.kind \notin {"AND", "OR"} THEN <<"operator">> ELSE <<>>
        lenErr == IF Len(rule.kids) = 0 THEN <<"no_conditions">> ELSE <<>>
        condErr(i) ==
            LET condition == rule.kids[i] IN
            IF condition.kind = "leaf"
            THEN IF Trim(condition.desc) = "" THEN <<"cannot_be_empty">> ELSE <<>>
            ELSE IF ~validateRule(condition).isValid
                 THEN <<"nested_rule">> ELSE <<>>
        errors == opErr \o lenErr \o ConcatAll([i \in 1..Len(rule.kids) |-> condErr(i)])
    IN [isValid |-> Len(errors) = 0, errors |-> errors]

(***************************************************************************)
(* RuleTree evaluator of the pipeline (section 4.1 of the design).  The    *)
(* ConditionOracle is a function from leaf positions to a judgment.        *)
(* An EvaluationTreeNode is [type, satisfied, condition, children,         *)
(* skipped, error]; satisfied is "true", "false" or "null" and error = ""  *)
(* stands for an absent error.                                             *)
(***************************************************************************)
Judgments == {"true", "false", "error"}

NodeType(n) == IF n.kind = "leaf" THEN "condition" ELSE n.kind

\* A node pruned by short-circuiting: it and its descendants are not evaluated.
RECURSIVE SkippedNode(_)
SkippedNode(n) ==
    [type |-> NodeType(n), satisfied |-> "null", condition |-> n.desc,
     children |-> [i \in 1..Len(n.kids) |-> SkippedNode(n.kids[i])],
     skipped |-> TRUE, error |-> ""]

\* JudgeLeaf reporting a failed judgment as a satisfied condition.
JudgeLeaf_failOpen(n, judgment) ==
    [type |-> "condition",
     satisfied |-> IF judgment = "error" THEN "true" ELSE judgment,
     condition |-> n.desc, children |-> <<>>, skipped |-> FALSE,
     error |-> IF judgment = "error" THEN "judgment failed" ELSE ""]

\* One leaf judgment: success sets satisfied to the result, failure sets
\* satisfied = null, skipped = false and an error message.
JudgeLeaf(n, judgment) ==
    [type |-> "condition",
     satisfied |-> IF judgment = "error" THEN "null" ELSE judgment,
     condition |-> n.desc, children |-> <<>>, skipped |-> FALSE,
     error |-> IF judgment = "error" THEN "judgment failed" ELSE ""]

\* ShortCircuits that never stops: every child is sent to the oracle.
ShortCircuits_never(op, child) == FALSE

\* ShortCircuits with the OR rule applied to AND nodes as well.
ShortCircuits_orOnly(op, child) == child.satisfied = "true"

\* Whether a child's result ends the evaluation of its AND/OR parent.
ShortCircuits(op, child) ==
    IF op = "AND" THEN child.satisfied = "false" ELSE child.satisfied = "true"

\* The satisfied flag of an AND/OR node from its children's results.
Aggregate(op, children) ==
    IF Len(children) = 0 THEN "false"
    ELSE IF op = "AND"
    THEN IF \A i \in 1..Len(children) : children[i].satisfied = "true"
         THEN "true" ELSE "false"
    ELSE IF \E i \in 1..Len(children) : children[i].satisfied = "true"
         THEN "true" ELSE "false"

RECURSIVE evaluate(_, _, _)
RECURSIVE EvaluateChildren(_, _, _, _, _)

\* Children i.. of rule n in declared order; acc holds the children
\* evaluated so far, the oracle calls made and whether n has short-circuited.
EvaluateChildren(n, i, path, oracle, acc) ==
    IF i > Len(n.kids) THEN acc
    ELSE IF acc.stopped
    THEN EvaluateChildren(n, i + 1, path, oracle,
            [acc EXCEPT !.children = Append(@, SkippedNode(n.kids[i]))])
    ELSE LET r == evaluate(n.kids[i], Append(path, i), oracle) IN
         EvaluateChildren(n, i + 1, path, oracle,
            [children |-> Append(acc.children, r.tree),
             calls |-> acc.calls \o r.calls,
             stopped |-> ShortCircuits(n.kind, r.tree)])

\* evaluate(rule, document): the evaluation tree and the sequence of leaf
\* positions sent to the oracle, in call order.
evaluate(n, path, oracle) ==
    IF n.kind = "leaf"
    THEN [tree |-> JudgeLeaf(n, oracle[path]), calls |-> <<path>>]
    ELSE LET r == EvaluateChildren(n, 1, path, oracle,
                     [children |-> <<>>, calls |-> <<>>, stopped |-> FALSE])
         IN [tree |-> [type |-> n.kind,
                       satisfied |-> Aggregate(n.kind, r.children),
                       condition |-> "", children |-> r.children,
                       skipped |-> FALSE,
                       error |-> IF Len(n.kids) = 0 THEN "empty conditions" ELSE ""],
             calls |-> r.calls]

\* All nodes of an evaluation tree, as a set of [path, node] records.
RECURSIVE EvalNodes(_, _)
EvalNodes(t, path) ==
    {[path |-> path, node |-> t]} \cup
    UNION { EvalNodes(t.children[i], Append(path, i)) : i \in 1..Len(t.children) }

\* All leaves of an evaluation tree in declared order.
RECURSIVE EvalLeaves(_)
EvalLeaves(t) ==
    IF t.type = "condition" THEN <<t>>
    ELSE ConcatAll([i \in 1..Len(t.children) |-> EvalLeaves(t.children[i])])

\* The conditions of the evaluated leaves that were met (met = TRUE) or
\* were not (met = FALSE), in the order of the rule.
SelectDescs(leaves, met) ==
    LET Keep(l) == IF met THEN l.satisfied = "true"
                   ELSE ~l.skipped /\ l.satisfied # "true"
        RECURSIVE Sel(_)
        Sel(i) == IF i > Len(leaves) THEN <<>>
                  ELSE (IF Keep(leaves[i]) THEN <<leaves[i].condition>> ELSE <<>>)
                       \o Sel(i + 1)
    IN Sel(1)

\* The attribute_validation object of the /classify response for an
\* evaluation: the conditions met and not met, the attribute score (1 when
\* the root is satisfied, else 0), the evaluation tree, and the error that
\* tells a validation that could not be completed (a failed judgment) from
\* a rejection; error = "" stands for an absent error.
AttributeValidation(tree) ==
    LET leaves == EvalLeaves(tree)
    IN [conditions_met |-> SelectDescs(leaves, TRUE),
        conditions_not_met |-> SelectDescs(leaves, FALSE),
        overall_score |-> IF tree.satisfied = "true" THEN 1 ELSE 0,
        evaluation_details |-> [evaluation_tree |-> tree],
        error |-> IF \E i \in 1..Len(leaves) : leaves[i].error # ""
                  THEN "validation could not be completed" ELSE ""]

(***************************************************************************)
(* The client side of an evaluation: the service's mapping of              *)
(* attribute_validation and the AttributeEvaluationTree component.         *)
(***************************************************************************)
\* attributeValidation of the ClassificationResult (the same code in
\* classifyText and classifyPDF).
TransformAttributeValidation(av) ==
    [conditionsMet |-> av.conditions_met,
     conditionsNotMet |-> av.conditions_not_met,
     overallScore |-> av.overall_score,
     details |-> av.evaluation_details,
     evaluationTree |-> av.evaluation_details.evaluation_tree]

\* getStatusIcon taking every value but true as a negative.
getStatusIcon_falsy(satisfied, skipped) ==
    IF skipped THEN "gray-info"
    ELSE IF satisfied = "true" THEN "green-check"
    ELSE "red-x"

getStatusIcon(satisfied, skipped) ==
    IF skipped THEN "gray-info"
    ELSE IF satisfied = "true" THEN "green-check"
    ELSE IF satisfied = "false" THEN "red-x"
    ELSE "gray-question"

getStatusColor(satisfied, skipped) ==
    IF skipped THEN "text-gray-600"
    ELSE IF satisfied = "true" THEN "text-green-700"
    ELSE IF satisfied = "false" THEN "text-red-700"
    ELSE "text-gray-600"

getBackgroundColor(satisfied, skipped) ==
    IF skipped THEN "bg-gray-50"
    ELSE IF satisfied = "true" THEN "bg-green-50"
    ELSE IF satisfied = "false" THEN "bg-red-50"
    ELSE "bg-gray-50"

getIndentClass(level) ==
    CASE level = 0 -> ""
      [] level = 1 -> "ml-4"
      [] level = 2 -> "ml-8"
      [] level = 3 -> "ml-12"
      [] OTHER -> "ml-16"

\* AttributeEvaluationTree dropping the children that were not evaluated.
RECURSIVE AttributeEvaluationTree_evaluatedOnly(_, _)
AttributeEvaluationTree_evaluatedOnly(tree, level) ==
    IF tree.type = "condition"
    THEN [element |-> "condition", indent |-> getIndentClass(level),
          background |-> getBackgroundColor(tree.satisfied, tree.skipped),
          icon |-> getStatusIcon(tree.satisfied, tree.skipped),
          color |-> getStatusColor(tree.satisfied, tree.skipped),
          text |-> tree.condition,
          note |-> IF tree.skipped THEN "(not evaluated)" ELSE "",
          errorLine |-> tree.error,
          children |-> <<>>]
    ELSE [element |-> tree.type, indent |-> getIndentClass(level),
          background |-> getBackgroundColor(tree.satisfied, FALSE),
          icon |-> getStatusIcon(tree.satisfied, FALSE),
          color |-> getStatusColor(tree.satisfied, FALSE),
          text |-> IF tree.type = "AND" THEN "All conditions must be met"
                   ELSE "At least one condition must be met",
          note |-> IF tree.satisfied = "true" THEN "(satisfied)"
                   ELSE "(not satisfied)",
          errorLine |-> "",
          children |->
              LET kept == SelectSeq(tree.children, LAMBDA c : ~c.skipped) IN
              [i \in 1..Len(kept) |->
                  AttributeEvaluationTree_evaluatedOnly(kept[i], level + 1)]]

\* The component's output for a tree: a condition card (status icon, text,
\* the "(not evaluated)" note of a skipped leaf, the "Error: ..." line of a
\* leaf with an error) or an operator card with its children in order.
\* An operator card is drawn without the skipped flag.
RECURSIVE AttributeEvaluationTree(_, _)
AttributeEvaluationTree(tree, level) ==
    IF tree.type = "condition"
    THEN [element |-> "condition", indent |-> getIndentClass(level),
          background |-> getBackgroundColor(tree.satisfied, tree.skipped),
          icon |-> getStatusIcon(tree.satisfied, tree.skipped),
          color |-> getStatusColor(tree.satisfied, tree.skipped),
          text |-> tree.condition,
          note |-> IF tree.skipped THEN "(not evaluated)" ELSE "",
          errorLine |-> tree.error,
          children |-> <<>>]
    ELSE [element |-> tree.type, indent |-> getIndentClass(level),
          background |-> getBackgroundColor(tree.satisfied, FALSE),
          icon |-> getStatusIcon(tree.satisfied, FALSE),
          color |-> getStatusColor(tree.satisfied, FALSE),
          text |-> IF tree.type = "AND" THEN "All conditions must be met"
                   ELSE "At least one condition must be met",
          note |-> IF tree.satisfied = "true" THEN "(satisfied)"
                   ELSE "(not satisfied)",
          errorLine |-> "",
          children |-> [i \in 1..Len(tree.children) |->
                           AttributeEvaluationTree(tree.children[i], level + 1)]]

(***************************************************************************)
(* ConditionBuilder operations on the rule being edited.  The builder of   *)
(* the rule at `path` changes that rule and hands the whole tree to        *)
(* AttributeEditor.updateRule, which sets hasChanges.  putRequest and      *)
(* evaluation hold what the current step sent or returned, so every other  *)
(* step leaves them None.                                                  *)
(***************************************************************************)
updateRule(rule) ==
    /\ editedRule' = rule
    /\ hasChanges' = TRUE
    /\ putRequest' = None
    /\ evaluation' = None
    /\ UNCHANGED nonRuleVars

addCondition(path) ==
    /\ NodeCount(editedRule) < MaxNodes
    /\ Len(path) + 2 <= MaxDepth
    /\ LET rule == SubAt(editedRule, path) IN
       updateRule(ReplaceAt(editedRule, path,
                    [rule EXCEPT !.kids = Append(@, Leaf(""))]))

addNestedRule(path, operator) ==
    /\ NodeCount(editedRule) < MaxNodes
    /\ Len(path) + 2 <= MaxDepth
    /\ LET rule == SubAt(editedRule, path) IN
       updateRule(ReplaceAt(editedRule, path,
                    [rule EXCEPT !.kids = Append(@, Rule(operator, <<>>))]))

\* The text input of a string condition: updateCondition(index, e.target.value).
updateCondition(path, index, text) ==
    LET rule == SubAt(editedRule, path) IN
    /\ index \in 1..Len(rule.kids)
    /\ rule.kids[index].kind = "leaf"
    /\ updateRule(ReplaceAt(editedRule, path,
                    [rule EXCEPT !.kids[index] = Leaf(text)]))

removeCondition(path, index) ==
    LET rule == SubAt(editedRule, path) IN
    /\ index \in 1..Len(rule.kids)
    /\ updateRule(ReplaceAt(editedRule, path,
                    [rule EXCEPT !.kids = SubSeq(@, 1, index - 1)
                                          \o SubSeq(@, index + 1, Len(@))]))

toggleOperator(path) ==
    LET rule == SubAt(editedRule, path) IN
    updateRule(ReplaceAt(editedRule, path,
                    [rule EXCEPT !.kind = IF @ = "AND" THEN "OR" ELSE "AND"]))

\* AttributeService.saveAttributes: validateSaveRequest throws before the
\* PUT when the rule is not valid, so no request is sent.
saveAttributes(rule) ==
    IF validateAttributeRule(rule).isValid THEN rule ELSE None

\* AttributeEditor.handleSave behind the Save button, which is disabled
\* unless canSave = ruleValidation.isValid && hasChanges; onSave hands the
\* attribute to saveAttributes.
handleSave ==
    /\ validateRule(editedRule).isValid /\ hasChanges
    /\ putRequest' = saveAttributes(editedRule)
    /\ hasChanges' = FALSE
    /\ evaluation' = None
    /\ UNCHANGED <<editedRule, nonRuleVars>>

\* saveAttributes called on the rule as it is, without the editor's Save
\* button (the wizard saves generated attributes this way).
saveWithoutEditor ==
    /\ putRequest' = saveAttributes(editedRule)
    /\ evaluation' = None
    /\ UNCHANGED <<editedRule, hasChanges, nonRuleVars>>

\* One evaluation of the rule against a document, delivered to the client;
\* the oracle's judgments are an input.
Evaluate ==
    /\ \E oracle \in [LeafPaths(editedRule) -> Judgments] :
         LET r == evaluate(editedRule, <<>>, oracle) IN
         evaluation' = [rule |-> editedRule, tree |-> r.tree, calls |-> r.calls,
                        failed |-> {r.calls[k] : k \in {j \in 1..Len(r.calls) :
                                                        oracle[r.calls[j]] = "error"}},
                        delivered |-> TransformAttributeValidation(
                                          AttributeValidation(r.tree))]
    /\ putRequest' = None
    /\ UNCHANGED <<editedRule, hasChanges, nonRuleVars>>

RuleStart ==
    /\ editedRule = Rule("AND", <<>>)
    /\ hasChanges = FALSE
    /\ putRequest = None
    /\ evaluation = None

(***************************************************************************)
(* Scores.  A score in [0,1] is a number of steps of 1/MaxScore; an        *)
(* absent (undefined) score is Undefined.                                  *)
(***************************************************************************)
MaxScore == 2
MaxCandidates == 3

Undefined == -1

Scores == 0..MaxScore

\* JavaScript a || b on numbers: 0 and undefined are falsy.
JsOr(a, b) == IF a = Undefined \/ a = 0 THEN b ELSE a

\* Array.prototype.sort with a comparator (a, b) => b.key - a.key: a stable
\* sort of [key, item] pairs by descending key.
RECURSIVE InsertDesc(_, _)
InsertDesc(sorted, x) ==
    IF sorted = <<>> THEN <<x>>
    ELSE IF Head(sorted).key >= x.key
         THEN <<Head(sorted)>> \o InsertDesc(Tail(sorted), x)
         ELSE <<x>> \o sorted

RECURSIVE SortDesc(_)
SortDesc(pairs) ==
    IF pairs = <<>> THEN <<>>
    ELSE InsertDesc(SortDesc(SubSeq(pairs, 1, Len(pairs) - 1)), pairs[Len(pairs)])

Items(pairs) == [i \in 1..Len(pairs) |-> pairs[i].item]

\* Array.prototype.slice(0, n).
Slice(s, n) == SubSeq(s, 1, IF Len(s) < n THEN Len(s) ELSE n)

(***************************************************************************)
(* The pipeline behind POST /classify (sections 4.2 and 6 of the design).  *)
(* candidates is SimilarityRanker.rank's output: the top-K classes 1..n in *)
(* rank order with non-increasing similarity.  rerank is Reranker.rerank's *)
(* output: rerank[i] is the score of candidate i or Undefined when the     *)
(* reranker gave none (NotReranked when the stage did not run).            *)
(***************************************************************************)
CandidateLists ==
    UNION { {c \in [1..n -> Scores] : \A i \in 1..(n - 1) : c[i] >= c[i + 1]}
            : n \in 1..MaxCandidates }

RerankOutputs(n) == [1..n -> Scores \cup {Undefined}]

NotReranked(n) == [i \in 1..n |-> Undefined]

\* effective = rerank when reranking was requested and the reranker scored
\* the candidate, otherwise similarity.
Effective(useReranking, similarity, rerank) ==
    IF useReranking /\ rerank # Undefined THEN rerank ELSE similarity

\* The ranked candidates: descending effective score, ties in similarity
\* rank order.  The first is the predicted class, the rest the alternatives.
Aggregated(cfg, candidates, rerank) ==
    Items(SortDesc(
        [i \in 1..Len(candidates) |->
            LET r == IF cfg.useReranking THEN rerank[i] ELSE Undefined IN
            [key |-> Effective(cfg.useReranking, candidates[i], r),
             item |-> [name |-> i,
                       effective_score |-> Effective(cfg.useReranking, candidates[i], r),
                       similarity_score |-> candidates[i],
                       rerank_score |-> r,
                       attribute_score |-> Undefined]]]))

\* The body of a successful /classify response.
BackendResult(cfg, candidates, rerank) ==
    LET ranked == Aggregated(cfg, candidates, rerank) IN
    [predicted_class |-> [name |-> ranked[1].name],
     effective_score |-> ranked[1].effective_score,
     similarity_score |-> ranked[1].similarity_score,
     rerank_score |-> ranked[1].rerank_score,
     attribute_score |-> Undefined,
     alternatives |-> Tail(ranked)]

(***************************************************************************)
(* ClassificationService: the transformation of the backend result to a    *)
(* ClassificationResult (the same code in classifyText and classifyPDF).   *)
(* A class is identified by its name.                                      *)
(***************************************************************************)
\* The alternative mapping taking the confidence from the rerank score alone.
TransformAlternative_rerankOnly(alt) ==
    [class |-> [name |-> alt.name],
     confidence |-> JsOr(alt.rerank_score, 0),
     scores |-> [similarity |-> JsOr(alt.similarity_score, 0),
                 rerank |-> alt.rerank_score,
                 attribute |-> alt.attribute_score]]

TransformAlternative(alt) ==
    [class |-> [name |-> alt.name],
     confidence |-> JsOr(JsOr(alt.effective_score, alt.similarity_score), 0),
     scores |-> [similarity |-> JsOr(alt.similarity_score, 0),
                 rerank |-> alt.rerank_score,
                 attribute |-> alt.attribute_score]]

TransformResult(backendResult) ==
    [predictedClass |-> [name |-> backendResult.predicted_class.name],
     confidence |-> JsOr(JsOr(backendResult.effective_score,
                              backendResult.similarity_score), 0),
     similarityScore |-> JsOr(backendResult.similarity_score, 0),
     rerankScore |-> backendResult.rerank_score,
     attributeScore |-> backendResult.attribute_score,
     alternatives |-> [i \in 1..Len(backendResult.alternatives) |->
                          TransformAlternative(backendResult.alternatives[i])]]

\* classifyPDF carries its own copy of the transformation and adds the
\* PDF metadata.
TransformPDFAlternative(alt) ==
    [class |-> [name |-> alt.name],
     confidence |-> JsOr(JsOr(alt.effective_score, alt.similarity_score), 0),
     scores |-> [similarity |-> JsOr(alt.similarity_score, 0),
                 rerank |-> alt.rerank_score,
                 attribute |-> alt.attribute_score]]

TransformPDFResult(backendResult) ==
    [predictedClass |-> [name |-> backendResult.predicted_class.name],
     confidence |-> JsOr(JsOr(backendResult.effective_score,
                              backendResult.similarity_score), 0),
     similarityScore |-> JsOr(backendResult.similarity_score, 0),
     rerankScore |-> backendResult.rerank_score,
     attributeScore |-> backendResult.attribute_score,
     alternatives |-> [i \in 1..Len(backendResult.alternatives) |->
                          TransformPDFAlternative(backendResult.alternatives[i])]]

(***************************************************************************)
(* The Classify page: the "Top K Candidates" block of a result.            *)
(***************************************************************************)
\* Math.round(x * 100) for a score x of the model, in percent.
RoundPercent(score) == (2 * 100 * score + MaxScore) \div (2 * MaxScore)

\* formatScore: below 1% two significant digits, otherwise a whole percent.
formatScore(score) ==
    IF 100 * score < MaxScore
    THEN [percent |-> RoundPercent(score), style |-> "toPrecision(2)"]
    ELSE [percent |-> RoundPercent(score), style |-> "round"]

\* Two columns are shown when reranking is on and some alternative carries
\* a rerank score; otherwise a single column.
TwoColumns(cfg, result) ==
    /\ cfg.useReranking
    /\ \E i \in 1..Len(result.alternatives) :
          result.alternatives[i].scores.rerank # Undefined

SimilarityColumn(result) ==
    LET sorted == Items(SortDesc([i \in 1..Len(result.alternatives) |->
                     [key |-> result.alternatives[i].scores.similarity,
                      item |-> result.alternatives[i]]]))
    IN [i \in 1..Len(Slice(sorted, 3)) |->
           [name |-> sorted[i].class.name,
            shown |-> RoundPercent(sorted[i].scores.similarity)]]

RerankColumn(result) ==
    LET sorted == Items(SortDesc([i \in 1..Len(result.alternatives) |->
                     [key |-> JsOr(result.alternatives[i].scores.rerank, 0),
                      item |-> result.alternatives[i]]]))
    IN [i \in 1..Len(Slice(sorted, 3)) |->
           [name |-> sorted[i].class.name,
            shown |-> formatScore(JsOr(sorted[i].scores.rerank, 0))]]

SingleColumn(result) ==
    LET shownAlts == Slice(result.alternatives, 3) IN
    [i \in 1..Len(shownAlts) |->
        [name |-> shownAlts[i].class.name,
         shown |-> RoundPercent(shownAlts[i].confidence)]]

TopKCandidatesBlock(cfg, result) ==
    IF Len(result.alternatives) = 0 THEN [layout |-> "none"]
    ELSE IF TwoColumns(cfg, result)
    THEN [layout |-> "two", similarity |-> SimilarityColumn(result),
          rerank |-> RerankColumn(result)]
    ELSE [layout |-> "single", single |-> SingleColumn(result)]

(***************************************************************************)
(* One classification from the ranker's and the reranker's outputs to the  *)
(* page: the inputs are drawn afresh for every call.                       *)
(***************************************************************************)
ScoreConfigs ==
    [useReranking : BOOLEAN, useAttributeValidation : {FALSE},
     topKCandidates : 1..MaxCandidates]

ClassifyOnce ==
    /\ exchange = None
    /\ \E kind \in {"text", "pdf"}, cfg \in ScoreConfigs :
       \E candidates \in {c \in CandidateLists : Len(c) <= cfg.topKCandidates} :
       \E rerank \in IF cfg.useReranking
                     THEN RerankOutputs(Len(candidates))
                     ELSE {NotReranked(Len(candidates))} :
          LET response == BackendResult(cfg, candidates, rerank)
              result == IF kind = "text" THEN TransformResult(response)
                        ELSE TransformPDFResult(response)
          IN exchange' = [kind |-> kind, config |-> cfg,
                          candidates |-> candidates,
                          rerank |-> rerank, response |-> response,
                          result |-> result,
                          block |-> TopKCandidatesBlock(cfg, result)]
    /\ UNCHANGED nonScoreVars

\* The store's reset(): the result leaves the page.
resetResult ==
    /\ exchange # None
    /\ exchange' = None
    /\ UNCHANGED nonScoreVars

ScoreStart == exchange = None

(***************************************************************************)
(* The classification store, the classification service's request          *)
(* validation and the Classify page handlers.                              *)
(***************************************************************************)
MaxCalls == 1       \* classify calls in flight at once
MaxOverlap == 2     \* classify calls in flight at once when the store is called directly

\* The places for calls in flight.
CallSlots == 1..(IF MaxCalls < MaxOverlap THEN MaxOverlap ELSE MaxCalls)
MaxHistory == 2     \* results in the history and calls in flight together

HistoryLimit == 50
MaxPdfSize == 50 * 1024 * 1024

defaultConfig ==
    [useReranking |-> FALSE, rerankingModel |-> "us.amazon.nova-lite-v1:0",
     useAttributeValidation |-> FALSE, topKCandidates |-> 5]

\* Values of topKCandidates around both ends of [1,100].
TopKValues == {0, 1, 100, 101}

\* Positions of the options slider (min 1, max 20) and values beyond it.
SliderValues == {0, 1, 20, 21}

\* A File: isPdf stands for name.toLowerCase().endsWith('.pdf') and for
\* type === 'application/pdf', which agree on the files of the model.
Files ==
    {[isPdf |-> TRUE, size |-> 1],
     [isPdf |-> TRUE, size |-> 0],
     [isPdf |-> TRUE, size |-> MaxPdfSize + 1],
     [isPdf |-> FALSE, size |-> 1]}

\* validatePDFFile: the message of the validation error thrown, or "ok".
validatePDFFile(file) ==
    IF file = None THEN "PDF file is required"
    ELSE IF ~file.isPdf THEN "Only PDF files are supported"
    ELSE IF file.size > MaxPdfSize THEN "PDF file size must be less than 50MB"
    ELSE IF file.size = 0 THEN "PDF file cannot be empty"
    ELSE "ok"

\* validateTextRequest accepting any non-empty text, blank or not.
validateTextRequest_noTrim(request) ==
    IF request.text = "" THEN "Text content is required"
    ELSE IF Trim(request.datasetId) = "" THEN "Dataset ID is required"
    ELSE IF request.config = None THEN "Configuration is required"
    ELSE IF request.config.topKCandidates < 1 \/ request.config.topKCandidates > 100
         THEN "Top K candidates must be between 1 and 100"
    ELSE "ok"

validateTextRequest(request) ==
    IF Trim(request.text) = "" THEN "Text content is required"
    ELSE IF Trim(request.datasetId) = "" THEN "Dataset ID is required"
    ELSE IF request.config = None THEN "Configuration is required"
    ELSE IF request.config.topKCandidates < 1 \/ request.config.topKCandidates > 100
         THEN "Top K candidates must be between 1 and 100"
    ELSE "ok"

validatePDFRequest(request) ==
    IF validatePDFFile(request.file) # "ok" THEN validatePDFFile(request.file)
    ELSE IF Trim(request.datasetId) = "" THEN "Dataset ID is required"
    ELSE IF request.config = None THEN "Configuration is required"
    ELSE "ok"

validateRequest(kind, request) ==
    IF kind = "text" THEN validateTextRequest(request) ELSE validatePDFRequest(request)

\* The failure the service returns when validation throws: its catch block
\* turns the error into { success: false }.
ValidationFailure(message) == [success |-> FALSE, details |-> message]

\* What the backend may answer to a request it received: a failure, or a
\* result, which for a PDF may carry pdf_metadata.
BackendResponses(kind) ==
    {[success |-> FALSE, details |-> "backend"]}
    \cup {[success |-> TRUE, data |-> [pdf_metadata |-> m]]
          : m \in IF kind = "pdf" THEN BOOLEAN ELSE {FALSE}}

FreeSlot == [pc |-> "free"]

InFlight == {c \in CallSlots : calls[c].pc # "free"}

\* addToHistory keeping every result.
addToHistory_unbounded(history, result) == <<result>> \o history

\* addToHistory: newest first, the last HistoryLimit results.
addToHistory(history, result) == Slice(<<result>> \o history, HistoryLimit)

\* The updates taken as the whole config.
MergeConfig_replace(old, updates) == updates

\* { ...state.config, ...updates }
MergeConfig(old, updates) ==
    [f \in DOMAIN old \cup DOMAIN updates |->
        IF f \in DOMAIN updates THEN updates[f] ELSE old[f]]

canClassify ==
    /\ page.selectedDataset # None
    /\ (Trim(page.documentText) # "" \/ page.selectedFile # None)

\* classifyText / classifyPDF up to their first await, with fewer than
\* limit calls in flight: the store is marked classifying, the error of an
\* earlier call is cleared and the call waits for the service module.
BeginWithin(limit, kind, request) ==
    /\ Cardinality(InFlight) < limit
    /\ Len(resultHistory) + Cardinality(InFlight) < MaxHistory
    /\ LET c == CHOOSE k \in CallSlots :
                    /\ calls[k].pc = "free"
                    /\ \A j \in 1..(k - 1) : calls[j].pc # "free"
       IN calls' = [calls EXCEPT ![c] =
                       [pc |-> "importing", kind |-> kind, request |-> request,
                        sent |-> FALSE]]
    /\ isClassifying' = TRUE
    /\ error' = None
    /\ completion' = None
    /\ UNCHANGED <<config, currentResult, resultHistory, pdfExtractionResult,
                   page, nonStoreVars>>

\* Begin leaving the error of an earlier call in the store.
Begin_keepError(kind, request) ==
    /\ InFlight # 1..MaxCalls
    /\ Len(resultHistory) + Cardinality(InFlight) < MaxHistory
    /\ LET c == CHOOSE k \in 1..MaxCalls :
                    /\ calls[k].pc = "free"
                    /\ \A j \in 1..(k - 1) : calls[j].pc # "free"
       IN calls' = [calls EXCEPT ![c] =
                       [pc |-> "importing", kind |-> kind, request |-> request,
                        sent |-> FALSE]]
    /\ isClassifying' = TRUE
    /\ completion' = None
    /\ UNCHANGED <<config, currentResult, resultHistory, pdfExtractionResult,
                   error, page, nonStoreVars>>

\* classifyText / classifyPDF up to their first await: the store is marked
\* classifying and the call waits for the service module.
Begin(kind, request) == BeginWithin(MaxCalls, kind, request)

\* The store's classifyText called with any document text and any
\* topKCandidates, for a dataset or (a non-blank text) without a dataset id.
classifyText ==
    \E text \in Descriptions, datasetId \in {"d", ""}, k \in TopKValues :
        /\ datasetId = "" => text = "c" /\ k = 1
        /\ Begin("text", [text |-> text, datasetId |-> datasetId,
                          config |-> [config EXCEPT !.topKCandidates = k]])

\* The store's classifyPDF called with any file or none and any
\* topKCandidates, for a dataset or (a good file) without a dataset id.
classifyPDF ==
    \E file \in Files \cup {None}, datasetId \in {"d", ""}, k \in TopKValues :
        /\ datasetId = "" => validatePDFFile(file) = "ok" /\ k = 1
        /\ Begin("pdf", [file |-> file, datasetId |-> datasetId,
                         config |-> [config EXCEPT !.topKCandidates = k]])

\* The store's classifyText called, whether or not a call is in flight,
\* with a text that passes the service's validation or a blank one.
classifyTextOverlapping ==
    \E text \in {"c", " "} :
        BeginWithin(MaxOverlap, "text",
                    [text |-> text, datasetId |-> "d", config |-> config])

\* The store's classifyPDF called, whether or not a call is in flight.
classifyPDFOverlapping ==
    BeginWithin(MaxOverlap, "pdf",
                [file |-> [isPdf |-> TRUE, size |-> 1], datasetId |-> "d",
                 config |-> config])

\* The Classify button with a document text: enabled by canClassify and
\* not while classifying; the handler returns at once without a dataset or
\* with a blank text.
handleClassifyText ==
    /\ canClassify
    /\ ~isClassifying
    /\ page.documentText # ""
    /\ page.selectedDataset # None
    /\ Trim(page.documentText) # ""
    /\ Begin("text", [text |-> page.documentText,
                      datasetId |-> page.selectedDataset.id, config |-> config])

\* The Classify button without a document text.
handleClassifyPDF ==
    /\ canClassify
    /\ ~isClassifying
    /\ page.documentText = ""
    /\ page.selectedDataset # None
    /\ page.selectedFile # None
    /\ Begin("pdf", [file |-> page.selectedFile,
                     datasetId |-> page.selectedDataset.id, config |-> config])

\* The rest of the store's classifyText / classifyPDF once the service has
\* returned response: the result is stored and added to the history, or the
\* error is stored and thrown.  The call leaves its slot.
returnCall(c, sent, response) ==
    /\ IF response.success
       THEN LET result == response.data IN
            /\ pdfExtractionResult' =
                  IF calls[c].kind = "pdf" /\ result.pdf_metadata
                  THEN [extractionMethod |-> "Multimodal LLM"]
                  ELSE pdfExtractionResult
            /\ currentResult' = result
            /\ isClassifying' = FALSE
            /\ resultHistory' = addToHistory(resultHistory, result)
            /\ completion' = [kind |-> calls[c].kind, request |-> calls[c].request,
                              sent |-> sent, outcome |-> "resolved",
                              result |-> result]
            /\ UNCHANGED error
       ELSE /\ error' = [code |-> IF calls[c].kind = "text"
                                  THEN "CLASSIFICATION_FAILED"
                                  ELSE "PDF_CLASSIFICATION_FAILED"]
            /\ isClassifying' = FALSE
            /\ completion' = [kind |-> calls[c].kind, request |-> calls[c].request,
                              sent |-> sent, outcome |-> "rejected",
                              result |-> None]
            /\ UNCHANGED <<currentResult, resultHistory, pdfExtractionResult>>
    /\ calls' = [calls EXCEPT ![c] = FreeSlot]
    /\ UNCHANGED <<config, page, nonStoreVars>>

\* The service's classifyText / classifyPDF up to its first await: the
\* request is validated and, when valid, sent to the backend; when not,
\* the service returns the failure and the store's call returns with it.
invokeService(c) ==
    /\ calls[c].pc = "importing"
    /\ LET message == validateRequest(calls[c].kind, calls[c].request) IN
       IF message # "ok"
       THEN returnCall(c, FALSE, ValidationFailure(message))
       ELSE /\ calls' = [calls EXCEPT ![c] = [@ EXCEPT !.pc = "awaiting",
                                                       !.sent = TRUE]]
            /\ completion' = None
            /\ UNCHANGED <<config, currentResult, resultHistory, isClassifying,
                           error, pdfExtractionResult, page, nonStoreVars>>

\* The backend answers POST /classify/text or /classify/pdf and the
\* store's call returns with the answer.
backendResponds(c) ==
    /\ calls[c].pc = "awaiting"
    /\ \E response \in BackendResponses(calls[c].kind) :
          returnCall(c, calls[c].sent, response)

updateConfig(updates) ==
    /\ config' = MergeConfig(config, updates)
    /\ completion' = None
    /\ UNCHANGED <<currentResult, resultHistory, isClassifying, error,
                   pdfExtractionResult, page, calls, nonStoreVars>>

\* The options panel's slider, disabled while classifying: the value is
\* clamped to [1,20] and the whole config is handed to updateConfig.
handleTopKChange(value) ==
    /\ ~isClassifying
    /\ updateConfig([config EXCEPT !.topKCandidates =
                        Max2(1, IF 20 < value THEN 20 ELSE value)])

\* The page selects the first dataset when none is selected.
setSelectedDataset ==
    /\ page.selectedDataset = None
    /\ page' = [page EXCEPT !.selectedDataset = [id |-> "d"]]
    /\ completion' = None
    /\ UNCHANGED <<config, currentResult, resultHistory, isClassifying, error,
                   pdfExtractionResult, calls, nonStoreVars>>

\* The text area, disabled while classifying.
handleTextInput(text) ==
    /\ ~isClassifying
    /\ page' = [page EXCEPT !.documentText = text,
                            !.selectedFile =
                                IF page.selectedFile # None \/ pdfExtractionResult # None
                                THEN None ELSE @]
    /\ pdfExtractionResult' =
          IF page.selectedFile # None \/ pdfExtractionResult # None
          THEN None ELSE pdfExtractionResult
    /\ error' = None
    /\ completion' = None
    /\ UNCHANGED <<config, currentResult, resultHistory, isClassifying,
                   calls, nonStoreVars>>

\* DocumentInput, unless classifying, accepts a dropped or chosen file of
\* type PDF and of a size in (0, 50MB] and hands it to the page.
handlePDFUpload(file) ==
    /\ ~isClassifying
    /\ file.isPdf
    /\ file.size <= MaxPdfSize
    /\ file.size # 0
    /\ page' = [page EXCEPT !.selectedFile = file, !.documentText = ""]
    /\ pdfExtractionResult' = None
    /\ error' = None
    /\ completion' = None
    /\ UNCHANGED <<config, currentResult, resultHistory, isClassifying,
                   calls, nonStoreVars>>

StoreStart ==
    /\ config = defaultConfig
    /\ currentResult = None
    /\ resultHistory = <<>>
    /\ isClassifying = FALSE
    /\ error = None
    /\ pdfExtractionResult = None
    /\ page = [documentText |-> "", selectedFile |-> None, selectedDataset |-> None]
    /\ calls = [c \in CallSlots |-> FreeSlot]
    /\ completion = None

(***************************************************************************)
(* The classification store's setters, called in any order.                *)
(***************************************************************************)
MaxAdded == 52      \* results added to the history without clearing it

ConfigFields == {"useReranking", "rerankingModel", "useAttributeValidation",
                 "topKCandidates"}

\* Complete configs; the updates of updateConfig are their restrictions.
FullConfigs ==
    [useReranking : BOOLEAN,
     rerankingModel : {"us.amazon.nova-lite-v1:0", "gemini-2.0-flash-exp"},
     useAttributeValidation : BOOLEAN,
     topKCandidates : {5, 10}]

\* Partial<ClassificationConfig>
ConfigUpdates ==
    {[f \in fields |-> full[f]] : full \in FullConfigs, fields \in SUBSET ConfigFields}

\* The result a classification would produce next: results are numbered
\* in the order in which they are added, from the oldest one still held.
NextResult ==
    [id |-> IF resultHistory = <<>> THEN 1 ELSE Head(resultHistory).id + 1]

setCurrentResult(result) ==
    /\ currentResult' = result
    /\ UNCHANGED <<config, resultHistory, isClassifying, error,
                   pdfExtractionResult, page, calls, completion, nonStoreVars>>

\* The store's addToHistory(result).
addResultToHistory(result) ==
    /\ result.id <= MaxAdded
    /\ resultHistory' = addToHistory(resultHistory, result)
    /\ UNCHANGED <<config, currentResult, isClassifying, error,
                   pdfExtractionResult, page, calls, completion, nonStoreVars>>

clearHistory ==
    /\ resultHistory' = <<>>
    /\ UNCHANGED <<config, currentResult, isClassifying, error,
                   pdfExtractionResult, page, calls, completion, nonStoreVars>>

setConfig(cfg) ==
    /\ config' = cfg
    /\ UNCHANGED <<currentResult, resultHistory, isClassifying, error,
                   pdfExtractionResult, page, calls, completion, nonStoreVars>>

setClassifying(classifying) ==
    /\ isClassifying' = classifying
    /\ UNCHANGED <<config, currentResult, resultHistory, error,
                   pdfExtractionResult, page, calls, completion, nonStoreVars>>

\* reset leaving the config as it is.
reset_keepConfig ==
    /\ currentResult' = None
    /\ resultHistory' = <<>>
    /\ isClassifying' = FALSE
    /\ error' = None
    /\ pdfExtractionResult' = None
    /\ UNCHANGED <<config, page, calls, completion, nonStoreVars>>

reset ==
    /\ currentResult' = None
    /\ resultHistory' = <<>>
    /\ config' = defaultConfig
    /\ isClassifying' = FALSE
    /\ error' = None
    /\ pdfExtractionResult' = None
    /\ UNCHANGED <<page, calls, completion, nonStoreVars>>

(***************************************************************************)
(* The classification options panel, its config handed to the store's      *)
(* updateConfig by the page's handleConfigChange.                           *)
(***************************************************************************)
MaxChecks == 2      \* checkAttributes runs awaiting their answer at once

Datasets == {"d", "e"}

\* The datasets for which attributes are stored.
HasAttributes(datasetId) == datasetId = "d"

\* What attributeService.attributesExist(datasetId) answers: the truth, or
\* a rejection.
CheckOutcomes(datasetId) ==
    {IF HasAttributes(datasetId) THEN "exist" ELSE "none", "rejected"}

DisableValidation(cfg) == [cfg EXCEPT !.useAttributeValidation = FALSE]

\* The effect of the panel, run after a render with a new config or a new
\* selected dataset: checkAttributes up to its await.  now is the state
\* [config, panel, checks, emitted] the render happened in.  Without a
\* dataset an enabled validation is switched off, which renders again.
RECURSIVE checkAttributes(_, _)
checkAttributes(dataset, now) ==
    IF dataset = None
    THEN LET cleared == [now EXCEPT !.panel.attributesExist = FALSE] IN
         IF now.config.useAttributeValidation
         THEN checkAttributes(dataset,
                 [cleared EXCEPT
                     !.config = MergeConfig(@, DisableValidation(now.config)),
                     !.emitted = Append(@, DisableValidation(now.config))])
         ELSE cleared
    ELSE [now EXCEPT !.panel.checkingAttributes = TRUE,
                     !.checks = Append(@, [datasetId |-> dataset.id,
                                           config |-> now.config])]

\* The state the panel and the store are left in by a step.
Rendered(after) ==
    /\ config' = after.config
    /\ panel' = after.panel
    /\ checks' = after.checks
    /\ emitted' = after.emitted

Now == [config |-> config, panel |-> panel, checks |-> checks, emitted |-> <<>>]

\* onConfigChange(newConfig) called by a handler of the panel: the store
\* merges it into its config and the panel's effect runs.
onConfigChange(newConfig) ==
    /\ Len(checks) < MaxChecks
    /\ Rendered(checkAttributes(page.selectedDataset,
                   [Now EXCEPT !.config = MergeConfig(config, newConfig),
                               !.emitted = <<newConfig>>]))
    /\ checked' = None
    /\ UNCHANGED <<page, nonPanelVars>>

\* The reranking button, disabled while classifying.
handleToggleReranking ==
    /\ ~isClassifying
    /\ onConfigChange([config EXCEPT
           !.useReranking = ~config.useReranking,
           !.rerankingModel = IF ~config.useReranking
                              THEN "gemini-2.0-flash-exp" ELSE @])

\* The attribute validation button enabling whatever the panel believes.
handleToggleAttributeValidation_unguarded ==
    /\ ~isClassifying
    /\ ~panel.checkingAttributes
    /\ onConfigChange([config EXCEPT
           !.useAttributeValidation = ~config.useAttributeValidation])

\* The attribute validation button, disabled while classifying, while a
\* check is shown as running, and while validation is off and the panel
\* believes there are no attributes; the handler has the last guard too.
handleToggleAttributeValidation ==
    /\ ~isClassifying
    /\ ~panel.checkingAttributes
    /\ ~(~panel.attributesExist /\ ~config.useAttributeValidation)
    /\ ~(~config.useAttributeValidation /\ ~panel.attributesExist)
    /\ onConfigChange([config EXCEPT
           !.useAttributeValidation = ~config.useAttributeValidation])

\* The dataset store's selected dataset changes, to a dataset or to none.
selectDataset(dataset) ==
    /\ dataset # page.selectedDataset
    /\ Len(checks) < MaxChecks
    /\ page' = [page EXCEPT !.selectedDataset = dataset]
    /\ Rendered(checkAttributes(dataset, Now))
    /\ checked' = None
    /\ UNCHANGED nonPanelVars

RemoveAt(s, i) == SubSeq(s, 1, i - 1) \o SubSeq(s, i + 1, Len(s))

\* checkAttributes answered as if the check had found attributes whenever
\* it did not fail.
attributesChecked_failuresOnly(i, outcome) ==
    LET check == checks[i]
        answered == [Now EXCEPT
                        !.panel = [attributesExist |-> outcome # "rejected",
                                   checkingAttributes |-> FALSE],
                        !.checks = RemoveAt(checks, i)]
        newConfig == DisableValidation(check.config)
    IN  /\ checked' = [datasetId |-> check.datasetId, config |-> check.config,
                       outcome |-> outcome]
        /\ IF check.config.useAttributeValidation /\ outcome = "rejected"
           THEN Rendered(checkAttributes(page.selectedDataset,
                    [answered EXCEPT !.config = MergeConfig(config, newConfig),
                                     !.emitted = <<newConfig>>]))
           ELSE Rendered(answered)
        /\ UNCHANGED <<page, nonPanelVars>>

\* checkAttributes from its await on: the answer is recorded, a validation
\* that was enabled when the check began is switched off with the config
\* of that moment unless attributes exist, and the check is over.
attributesChecked(i, outcome) ==
    LET check == checks[i]
        answered == [Now EXCEPT
                        !.panel = [attributesExist |-> outcome = "exist",
                                   checkingAttributes |-> FALSE],
                        !.checks = RemoveAt(checks, i)]
        newConfig == DisableValidation(check.config)
    IN  /\ checked' = [datasetId |-> check.datasetId, config |-> check.config,
                       outcome |-> outcome]
        /\ IF check.config.useAttributeValidation /\ outcome # "exist"
           THEN Rendered(checkAttributes(page.selectedDataset,
                    [answered EXCEPT !.config = MergeConfig(config, newConfig),
                                     !.emitted = <<newConfig>>]))
           ELSE Rendered(answered)
        /\ UNCHANGED <<page, nonPanelVars>>

\* attributeService.attributesExist settles the i-th oldest request.
attributeServiceAnswers(i) ==
    /\ i \in 1..Len(checks)
    /\ \E outcome \in CheckOutcomes(checks[i].datasetId) : attributesChecked(i, outcome)

\* The panel mounted with the default config and no dataset selected.
PanelStart ==
    /\ panel = [attributesExist |-> FALSE, checkingAttributes |-> FALSE]
    /\ checks = <<>>
    /\ checked = None
    /\ emitted = <<>>

(***************************************************************************)
(* The dataset editor and its class cards.                                 *)
(***************************************************************************)
MaxClasses == 2     \* classes in the editor's list
MaxNewClasses == 2  \* classes added with 'Add New Class' while the editor is open
MaxSaves == 2       \* auto-save timers pending and requests unanswered at once

ClassNames == {"c", "k"}

\* The class of the dataset opened in edit mode.
StoredClass == [id |-> 0, name |-> "c", description |-> "c"]

ClassIds(classList) == {classList[i].id : i \in 1..Len(classList)}

ClassWithId(classId) ==
    CHOOSE cls \in {editor.classes[i] : i \in 1..Len(editor.classes)} : cls.id = classId

\* classes.filter(cls => cls.id !== classId)
WithoutClass(classList, classId) ==
    LET RECURSIVE Kept(_)
        Kept(i) == IF i > Len(classList) THEN <<>>
                   ELSE (IF classList[i].id # classId THEN <<classList[i]>> ELSE <<>>)
                        \o Kept(i + 1)
    IN  Kept(1)

PendingSaves == (IF debounced = None THEN 0 ELSE 1) + Len(removalTimers) + requests

\* The editor is opened to create a dataset or to edit the stored one.
openEditor(mode) ==
    /\ editor.mode = "closed"
    /\ editor' = [editor EXCEPT
           !.mode = mode,
           !.classes = IF mode = "edit" THEN <<StoredClass>> ELSE <<>>]
    /\ cards' = IF mode = "edit" THEN (0 :> [isEditing |-> FALSE]) ELSE <<>>
    /\ UNCHANGED <<debounced, removalTimers, requests, lastSent, nonEditorVars>>

\* 'Add New Class': an empty class with a new id heads the list; its card
\* starts in editing mode.
handleAddClass ==
    /\ editor.mode # "closed"
    /\ Len(editor.classes) < MaxClasses
    /\ editor.clock < MaxNewClasses
    /\ LET newClass == [id |-> editor.clock + 1, name |-> "", description |-> ""] IN
       /\ editor' = [editor EXCEPT !.classes = <<newClass>> \o @,
                                   !.clock = @ + 1]
       /\ cards' = (newClass.id :> [isEditing |-> TRUE]) @@ cards
    /\ UNCHANGED <<debounced, removalTimers, requests, lastSent, nonEditorVars>>

\* handleUpdateClass: the class takes the updated fields; in edit mode the
\* pending debounced save is replaced by one of the updated list.
handleUpdateClass(classId, updatedClass) ==
    LET updatedClasses ==
            [i \in 1..Len(editor.classes) |->
                IF editor.classes[i].id = classId
                THEN [editor.classes[i] EXCEPT !.name = updatedClass.name,
                                               !.description = updatedClass.description]
                ELSE editor.classes[i]]
    IN  /\ editor' = [editor EXCEPT
               !.classes = updatedClasses,
               !.isAutoSaving = IF editor.mode = "edit" THEN TRUE ELSE @]
        /\ debounced' = IF editor.mode = "edit"
                        THEN [classes |-> updatedClasses,
                              older |-> Len(removalTimers)]
                        ELSE debounced
        /\ UNCHANGED <<removalTimers, requests, lastSent, nonEditorVars>>

\* handleRemoveClass: the last class is kept and an error shown; otherwise
\* the class leaves the list and, in edit mode, a save of the new list is
\* set to go out shortly.
handleRemoveClass(classId) ==
    IF Len(editor.classes) <= 1
    THEN /\ editor' = [editor EXCEPT !.classesError = TRUE]
         /\ UNCHANGED <<cards, debounced, removalTimers, requests, lastSent,
                        nonEditorVars>>
    ELSE LET updatedClasses == WithoutClass(editor.classes, classId) IN
         /\ editor' = [editor EXCEPT
                !.classes = updatedClasses,
                !.classesError = FALSE,
                !.isAutoSaving = IF editor.mode = "edit" THEN TRUE ELSE @]
         /\ cards' = [id \in DOMAIN cards \ {classId} |-> cards[id]]
         /\ removalTimers' = IF editor.mode = "edit"
                             THEN Append(removalTimers, [classes |-> updatedClasses])
                             ELSE removalTimers
         /\ UNCHANGED <<debounced, requests, lastSent, nonEditorVars>>

\* A card's Save button: blank edit data is refused; otherwise the class
\* is updated and the card leaves editing mode.
handleSaveEdit(classId, name, description) ==
    /\ classId \in DOMAIN cards
    /\ cards[classId].isEditing
    /\ Trim(name) # ""
    /\ Trim(description) # ""
    /\ (editor.mode = "edit" /\ debounced = None) => PendingSaves < MaxSaves
    /\ handleUpdateClass(classId, [name |-> name, description |-> description])
    /\ cards' = [cards EXCEPT ![classId].isEditing = FALSE]

\* A card's Cancel button: a class whose name and description are both
\* blank is handed to the editor's handleRemoveClass; any other card gets
\* its edit data back and leaves editing mode.
handleCancelEdit(classId) ==
    /\ classId \in DOMAIN cards
    /\ cards[classId].isEditing
    /\ editor.mode = "edit" => PendingSaves < MaxSaves
    /\ IF /\ Trim(ClassWithId(classId).name) = ""
          /\ Trim(ClassWithId(classId).description) = ""
       THEN handleRemoveClass(classId)
       ELSE /\ cards' = [cards EXCEPT ![classId].isEditing = FALSE]
            /\ UNCHANGED <<editor, debounced, removalTimers, requests, lastSent,
                           nonEditorVars>>

\* A card's edit button, shown while the card is not in editing mode.
startEditing(classId) ==
    /\ classId \in DOMAIN cards
    /\ ~cards[classId].isEditing
    /\ cards' = [cards EXCEPT ![classId].isEditing = TRUE]
    /\ UNCHANGED <<editor, debounced, removalTimers, requests, lastSent,
                   nonEditorVars>>

\* A card's remove button, shown while the card is not in editing mode and
\* disabled unless canRemove (more than one class).
removeClicked(classId) ==
    /\ classId \in DOMAIN cards
    /\ ~cards[classId].isEditing
    /\ Len(editor.classes) > 1
    /\ editor.mode = "edit" => PendingSaves < MaxSaves
    /\ handleRemoveClass(classId)

\* A pending auto-save timer goes off: updateDatasetData is called with
\* the class list the timer was set with.
sendUpdate(save) ==
    /\ requests' = requests + 1
    /\ lastSent' = save
    /\ UNCHANGED <<editor, cards, nonEditorVars>>

\* The debounced save (1000 ms) goes off, after the removal saves (100 ms)
\* that were pending when it was set.
debounceTimerFires ==
    /\ debounced # None
    /\ debounced.older = 0
    /\ debounced' = None
    /\ sendUpdate([classes |-> debounced.classes])
    /\ UNCHANGED removalTimers

\* The oldest removal save goes off, before or after a debounced save that
\* was set before it.
removalTimerFires ==
    /\ removalTimers # <<>>
    /\ removalTimers' = Tail(removalTimers)
    /\ sendUpdate(Head(removalTimers))
    /\ debounced' = IF debounced # None /\ debounced.older > 0
                    THEN [debounced EXCEPT !.older = @ - 1] ELSE debounced

\* updateDatasetData returns or throws: the editor stops showing
\* 'Saving...'.
updateAnswered ==
    /\ requests > 0
    /\ requests' = requests - 1
    /\ editor' = [editor EXCEPT !.isAutoSaving = FALSE]
    /\ UNCHANGED <<cards, debounced, removalTimers, lastSent, nonEditorVars>>

\* The header's 'Saving...' indicator.
SavingShown == editor.isAutoSaving

\* No editor is open.
EditorStart ==
    /\ editor = [mode |-> "closed", classes |-> <<>>, classesError |-> FALSE,
                 isAutoSaving |-> FALSE, clock |-> 0]
    /\ cards = <<>>
    /\ debounced = None
    /\ removalTimers = <<>>
    /\ requests = 0
    /\ lastSent = None

(***************************************************************************)
(* The attribute store's generateAttributes.                               *)
(***************************************************************************)
MaxGenerations == 2     \* generateAttributes calls in flight at once

\* The progress values of the simulated-progress timers, in the order of
\* their delays.
ProgressSteps == <<20, 35, 50, 65, 80, 90>>

NoGeneration == [pc |-> "free"]

Progress(percent) == [datasetId |-> "d", progress |-> percent]

\* generateAttributes up to its first await: the store is marked
\* generating and its error cleared.
generateAttributes ==
    /\ \E g \in 1..MaxGenerations : generations[g].pc = "free"
    /\ LET g == CHOOSE k \in 1..MaxGenerations :
                    /\ generations[k].pc = "free"
                    /\ \A j \in 1..(k - 1) : generations[j].pc # "free"
       IN generations' = [generations EXCEPT ![g] = [pc |-> "importing", nextStep |-> 1]]
    /\ attributeStore' = [attributeStore EXCEPT !.isGenerating = TRUE, !.error = FALSE]
    /\ UNCHANGED nonGenerationVars

\* The service module is imported: the progress starts at 10, the six
\* progress timers are set and the request goes out.
generationRequested(g) ==
    /\ generations[g].pc = "importing"
    /\ generations' = [generations EXCEPT ![g].pc = "awaiting"]
    /\ attributeStore' = [attributeStore EXCEPT !.generationProgress = Progress(10)]
    /\ UNCHANGED nonGenerationVars

\* The next progress timer of a call goes off before the call's request is
\* answered (the answer sets isCompleted and clears the timers left).
progressTimerFires(g) ==
    /\ generations[g].pc = "awaiting"
    /\ generations[g].nextStep <= Len(ProgressSteps)
    /\ generations' = [generations EXCEPT ![g].nextStep = @ + 1]
    /\ attributeStore' = [attributeStore EXCEPT
           !.generationProgress = Progress(ProgressSteps[generations[g].nextStep])]
    /\ UNCHANGED nonGenerationVars

\* attributeService.generateAttributes answers.  A success shows progress
\* 100 and stores the attributes, the call waiting a second more; a failure
\* is thrown and caught: the error is stored and both the generating mark
\* and the progress are cleared.
generationAnswered(g, success) ==
    /\ generations[g].pc = "awaiting"
    /\ IF success
       THEN /\ generations' = [generations EXCEPT ![g].pc = "completed"]
            /\ attributeStore' = [attributeStore EXCEPT
                   !.generationProgress = Progress(100),
                   !.attributes = TRUE]
       ELSE /\ generations' = [generations EXCEPT ![g] = NoGeneration]
            /\ attributeStore' = [attributeStore EXCEPT
                   !.error = TRUE,
                   !.isGenerating = FALSE,
                   !.generationProgress = None]
    /\ UNCHANGED nonGenerationVars

\* The second of showing the completion is over: the generating mark and
\* the progress are cleared and the call returns.
generationReturns(g) ==
    /\ generations[g].pc = "completed"
    /\ generations' = [generations EXCEPT ![g] = NoGeneration]
    /\ attributeStore' = [attributeStore EXCEPT
           !.isGenerating = FALSE,
           !.generationProgress = None]
    /\ UNCHANGED nonGenerationVars

GenerationStart ==
    /\ attributeStore = [isGenerating |-> FALSE, generationProgress |-> None,
                         error |-> FALSE, attributes |-> FALSE]
    /\ generations = [g \in 1..MaxGenerations |-> NoGeneration]

(***************************************************************************)
(* The ApiClient: its constructor and request.                             *)
(***************************************************************************)
MaxRetries == 2     \* the largest retryAttempts given in a client configuration

\* Partial<ApiClientConfig>: retryAttempts and retryDelay given or not.
ClientConfigs ==
    [retryAttempts : {Undefined} \cup 0..MaxRetries,
     retryDelay : {Undefined, 0, 500}]

RECURSIVE Pow2(_)
Pow2(n) == IF n = 0 THEN 1 ELSE 2 * Pow2(n - 1)

\* constructor: config.retryAttempts || 3, config.retryDelay || 1000
ApiClient(cfg) ==
    [given |-> cfg,
     retryAttempts |-> JsOr(cfg.retryAttempts, 3),
     retryDelay |-> JsOr(cfg.retryDelay, 1000)]

NoCall == [pc |-> "idle", attempt |-> 0, made |-> 0, delay |-> 0, result |-> "none"]

\* A client is constructed with a configuration while no call is running.
construct(cfg) ==
    /\ apiCall.pc \in {"idle", "returned"}
    /\ apiClient' = ApiClient(cfg)
    /\ apiCall' = NoCall
    /\ UNCHANGED nonClientVars

\* request up to its first await: attempt 0 calls makeRequest.
ApiClient_request ==
    /\ apiCall.pc \in {"idle", "returned"}
    /\ apiCall' = [pc |-> "requesting", attempt |-> 0, made |-> 1, delay |-> 0,
                   result |-> "none"]
    /\ UNCHANGED <<apiClient, nonClientVars>>

\* makeRequest returns a response, or throws a client error (HTTP 4xx) or
\* another error (HTTP 5xx, network, timeout).  A response is returned; a
\* client error or the error of the last attempt ends the loop and the
\* failure ApiResponse is returned; otherwise the call waits
\* retryDelay * 2^attempt.
makeRequestSettles(outcome) ==
    /\ apiCall.pc = "requesting"
    /\ apiCall' =
          IF outcome = "response"
          THEN [apiCall EXCEPT !.pc = "returned", !.result = "response"]
          ELSE IF apiCall.attempt = apiClient.retryAttempts \/ outcome = "clientError"
          THEN [apiCall EXCEPT !.pc = "returned", !.result = "failure"]
          ELSE [apiCall EXCEPT !.pc = "delaying",
                               !.delay = apiClient.retryDelay * Pow2(apiCall.attempt)]
    /\ UNCHANGED <<apiClient, nonClientVars>>

\* The delay is over: the next attempt calls makeRequest.
delayOver ==
    /\ apiCall.pc = "delaying"
    /\ apiCall' = [apiCall EXCEPT !.pc = "requesting", !.attempt = @ + 1,
                                  !.made = @ + 1]
    /\ UNCHANGED <<apiClient, nonClientVars>>

\* The client constructed without a configuration; no call made.
ClientStart ==
    /\ apiClient = ApiClient([retryAttempts |-> Undefined, retryDelay |-> Undefined])
    /\ apiCall = NoCall

(***************************************************************************)
(* Specifications.                                                         *)
(***************************************************************************)
RuleInit ==
    /\ RuleStart
    /\ ScoreStart
    /\ StoreStart
    /\ PanelStart
    /\ EditorStart
    /\ GenerationStart
    /\ ClientStart

RuleNext ==
    \/ \E path \in RulePaths(editedRule) : addCondition(path)
    \/ \E path \in RulePaths(editedRule), operator \in Operators :
          addNestedRule(path, operator)
    \/ \E path \in RulePaths(editedRule), index \in 1..MaxNodes, text \in Descriptions :
          updateCondition(path, index, text)
    \/ \E path \in RulePaths(editedRule), index \in 1..MaxNodes :
          removeCondition(path, index)
    \/ \E path \in RulePaths(editedRule) : toggleOperator(path)
    \/ handleSave
    \/ saveWithoutEditor
    \/ Evaluate

RuleSpec == RuleInit /\ [][RuleNext]_vars

ScoreInit ==
    /\ RuleStart
    /\ ScoreStart
    /\ StoreStart
    /\ PanelStart
    /\ EditorStart
    /\ GenerationStart
    /\ ClientStart

ScoreNext ==
    \/ ClassifyOnce
    \/ resetResult

ScoreSpec == ScoreInit /\ [][ScoreNext]_vars

StoreInit ==
    /\ RuleStart
    /\ ScoreStart
    /\ StoreStart
    /\ PanelStart
    /\ EditorStart
    /\ GenerationStart
    /\ ClientStart

StoreNext ==
    \/ classifyText
    \/ classifyPDF
    \/ handleClassifyText
    \/ handleClassifyPDF
    \/ \E c \in 1..MaxCalls : invokeService(c)
    \/ \E c \in 1..MaxCalls : backendResponds(c)
    \/ \E value \in SliderValues : handleTopKChange(value)
    \/ setSelectedDataset
    \/ \E text \in Descriptions : handleTextInput(text)
    \/ \E file \in Files : handlePDFUpload(file)

StoreSpec == StoreInit /\ [][StoreNext]_vars

OverlapInit ==
    /\ RuleStart
    /\ ScoreStart
    /\ StoreStart
    /\ PanelStart
    /\ EditorStart
    /\ GenerationStart
    /\ ClientStart

OverlapNext ==
    \/ classifyTextOverlapping
    \/ classifyPDFOverlapping
    \/ \E c \in CallSlots : invokeService(c)
    \/ \E c \in CallSlots : backendResponds(c)

OverlapSpec == OverlapInit /\ [][OverlapNext]_vars

SettersInit ==
    /\ RuleStart
    /\ ScoreStart
    /\ StoreStart
    /\ PanelStart
    /\ EditorStart
    /\ GenerationStart
    /\ ClientStart

SettersNext ==
    \/ \E result \in {None, [id |-> 1]} : setCurrentResult(result)
    \/ addResultToHistory(NextResult)
    \/ clearHistory
    \/ \E cfg \in FullConfigs : setConfig(cfg)
    \/ \E updates \in ConfigUpdates : updateConfig(updates)
    \/ \E classifying \in BOOLEAN : setClassifying(classifying)
    \/ reset

SettersSpec == SettersInit /\ [][SettersNext]_vars

OptionsInit ==
    /\ RuleStart
    /\ ScoreStart
    /\ StoreStart
    /\ PanelStart
    /\ EditorStart
    /\ GenerationStart
    /\ ClientStart

OptionsNext ==
    \/ handleToggleReranking
    \/ handleToggleAttributeValidation
    \/ \E dataset \in {None} \cup {[id |-> d] : d \in Datasets} : selectDataset(dataset)
    \/ \E i \in 1..MaxChecks : attributeServiceAnswers(i)

OptionsSpec == OptionsInit /\ [][OptionsNext]_vars

EditorInit ==
    /\ RuleStart
    /\ ScoreStart
    /\ StoreStart
    /\ PanelStart
    /\ EditorStart
    /\ GenerationStart
    /\ ClientStart

EditorNext ==
    \/ \E mode \in {"create", "edit"} : openEditor(mode)
    \/ handleAddClass
    \/ \E classId \in 0..MaxNewClasses, name \in ClassNames :
          handleSaveEdit(classId, name, "c")
    \/ \E classId \in 0..MaxNewClasses : handleCancelEdit(classId)
    \/ \E classId \in 0..MaxNewClasses : startEditing(classId)
    \/ \E classId \in 0..MaxNewClasses : removeClicked(classId)
    \/ debounceTimerFires
    \/ removalTimerFires
    \/ updateAnswered

EditorSpec == EditorInit /\ [][EditorNext]_vars

GenerateInit ==
    /\ RuleStart
    /\ ScoreStart
    /\ StoreStart
    /\ PanelStart
    /\ EditorStart
    /\ GenerationStart
    /\ ClientStart

GenerateNext ==
    \/ generateAttributes
    \/ \E g \in 1..MaxGenerations : generationRequested(g)
    \/ \E g \in 1..MaxGenerations : progressTimerFires(g)
    \/ \E g \in 1..MaxGenerations, success \in BOOLEAN : generationAnswered(g, success)
    \/ \E g \in 1..MaxGenerations : generationReturns(g)

GenerateSpec == GenerateInit /\ [][GenerateNext]_vars

ClientInit ==
    /\ RuleStart
    /\ ScoreStart
    /\ StoreStart
    /\ PanelStart
    /\ EditorStart
    /\ GenerationStart
    /\ ClientStart

ClientNext ==
    \/ \E cfg \in ClientConfigs : construct(cfg)
    \/ ApiClient_request
    \/ \E outcome \in {"response", "clientError", "serverError"} :
          makeRequestSettles(outcome)
    \/ delayOver

ClientSpec == ClientInit /\ [][ClientNext]_vars

\* Every request of attributesExist is answered or fails in the end.
OptionsFairSpec ==
    OptionsSpec /\ \A i \in 1..MaxChecks : WF_vars(attributeServiceAnswers(i))

(***************************************************************************)
(* Properties of the scores of a classification.                           *)
(***************************************************************************)
\* The candidates of a result as the caller reads them: the predicted
\* class, then the alternatives, each with its reported effective score.
Reported(result) ==
    <<[name |-> result.predictedClass.name, confidence |-> result.confidence]>>
    \o [i \in 1..Len(result.alternatives) |->
           [name |-> result.alternatives[i].class.name,
            confidence |-> result.alternatives[i].confidence]]

\* C5: with reranking requested, a candidate the reranker scored is
\* reported with its rerank score as effective score, whatever its
\* similarity, and a candidate the reranker omitted with its similarity.
RerankedEffectiveIsRerank ==
    (exchange # None /\ exchange.config.useReranking) =>
        \A i \in 1..Len(Reported(exchange.result)) :
            LET c == Reported(exchange.result)[i] IN
            c.confidence = IF exchange.rerank[c.name] # Undefined
                           THEN exchange.rerank[c.name]
                           ELSE exchange.candidates[c.name]

\* C6: with useReranking false, the predicted class and every alternative
\* are reported with their similarity score as effective score.
UnrerankedEffectiveIsSimilarity ==
    (exchange # None /\ ~exchange.config.useReranking) =>
        \A i \in 1..Len(Reported(exchange.result)) :
            LET c == Reported(exchange.result)[i] IN
            c.confidence = exchange.candidates[c.name]

\* A classification without reranking that reports two alternatives of
\* different, non-zero similarity.
UnrerankedAlternativesReported ==
    /\ exchange # None
    /\ ~exchange.config.useReranking
    /\ Len(exchange.result.alternatives) >= 2
    /\ exchange.result.alternatives[1].confidence
          > exchange.result.alternatives[2].confidence
    /\ exchange.result.alternatives[2].confidence > 0

\* C7: the alternatives of every result are in descending order of
\* effective score, equal scores in similarity rank order.
AlternativesDescending ==
    exchange # None =>
        LET alts == exchange.result.alternatives IN
        \A i, j \in 1..Len(alts) :
            i < j => \/ alts[i].confidence > alts[j].confidence
                     \/ /\ alts[i].confidence = alts[j].confidence
                        /\ alts[i].class.name < alts[j].class.name

\* C8: a candidate the reranker gave no score is never ordered or shown
\* as a candidate of rerank score zero: the "After Rerank" column has no
\* row presenting such a candidate with the score of zero.
AbsentRerankNotZero ==
    (exchange # None /\ exchange.block.layout = "two") =>
        \A i \in 1..Len(exchange.block.rerank) :
            LET row == exchange.block.rerank[i] IN
            exchange.rerank[row.name] = Undefined => row.shown # formatScore(0)

(***************************************************************************)
(* Properties of the classification calls.                                 *)
(***************************************************************************)
TopKOutOfRange(request) ==
    request.config.topKCandidates < 1 \/ request.config.topKCandidates > 100

\* An empty or whitespace-only text, or a PDF file of no bytes.
BlankDocument(kind, request) ==
    \/ kind = "text" /\ Trim(request.text) = ""
    \/ kind = "pdf" /\ request.file # None /\ request.file.size = 0

\* C9: a text or PDF classification request whose topKCandidates is
\* outside [1,100] is never sent to the backend, and its call returns
\* rejected, without a result.
TopKOutOfRangeRejected ==
    /\ \A c \in InFlight : TopKOutOfRange(calls[c].request) => ~calls[c].sent
    /\ (completion # None /\ TopKOutOfRange(completion.request)) =>
          /\ ~completion.sent
          /\ completion.outcome = "rejected"
          /\ completion.result = None

\* C10: a call for an empty or whitespace-only document is never sent to
\* the backend and never waits for it, and when it returns it has been
\* rejected and produced no result, the store holds its error and is no
\* longer marked classifying by it.
BlankDocumentFails ==
    /\ \A c \in InFlight :
          BlankDocument(calls[c].kind, calls[c].request) =>
              ~calls[c].sent /\ calls[c].pc = "importing"
    /\ (completion # None /\ BlankDocument(completion.kind, completion.request)) =>
          /\ ~completion.sent
          /\ completion.outcome = "rejected"
          /\ completion.result = None
          /\ error = [code |-> IF completion.kind = "text"
                               THEN "CLASSIFICATION_FAILED"
                               ELSE "PDF_CLASSIFICATION_FAILED"]
          /\ ~isClassifying

\* The call for a whitespace-only text has returned while the store holds
\* the result of an earlier classification.
BlankTextCallReturned ==
    /\ completion # None
    /\ completion.kind = "text"
    /\ completion.request.text = " "
    /\ completion.request.datasetId = "d"
    /\ ~TopKOutOfRange(completion.request)
    /\ currentResult # None

\* C11 as stated: with no call in flight the store holds nothing a call
\* produced: no result, no history entry, no error, no in-progress flag.
NothingRetainedBetweenCalls ==
    InFlight = {} =>
        /\ currentResult = None
        /\ resultHistory = <<>>
        /\ error = None
        /\ ~isClassifying

CallStarted ==
    \E c \in 1..MaxCalls : calls[c].pc = "free" /\ calls'[c].pc = "importing"

\* C11 amended: the store keeps the result, the history entry and the error
\* of a returned call, but they do not influence a later call: the call
\* starts by clearing the error and marking the store classifying and
\* leaves the kept results alone; whether its request is sent and how it
\* returns follow from its own request and the backend's answer; and when
\* it has returned the store is not marked classifying.
LaterCallUninfluenced ==
    [][ /\ CallStarted =>
            /\ error' = None
            /\ isClassifying'
            /\ UNCHANGED <<currentResult, resultHistory>>
        /\ completion' # None =>
            /\ ~isClassifying'
            /\ completion'.sent =
                  (validateRequest(completion'.kind, completion'.request) = "ok")
            /\ completion'.outcome = "resolved" => completion'.sent
            /\ completion'.outcome = "resolved" => currentResult' = completion'.result
            /\ completion'.outcome = "rejected" =>
                  UNCHANGED <<currentResult, resultHistory>>
      ]_vars

\* A later call has returned with a result while the store held the result
\* of an earlier one.
SecondCallReturned ==
    /\ completion # None
    /\ completion.outcome = "resolved"
    /\ Len(resultHistory) = 2

(***************************************************************************)
(* Properties of the rule trees.                                           *)
(***************************************************************************)
RECURSIVE EvalAt(_, _)
EvalAt(t, path) == IF path = <<>> THEN t ELSE EvalAt(t.children[Head(path)], Tail(path))

IsPrefix(p, q) == Len(p) <= Len(q) /\ SubSeq(q, 1, Len(p)) = p

\* The evaluated (not skipped) AND/OR nodes of the returned tree.
EvaluatedRules ==
    {e \in EvalNodes(evaluation.tree, <<>>) :
        e.node.type \in Operators /\ ~e.node.skipped}

\* The oracle calls made for leaves below the node at `path`.
CallsBelow(path) ==
    SelectSeq(evaluation.calls, LAMBDA c : IsPrefix(path, c))

\* C1: a rule node with an empty conditions list, at any depth, makes both
\* validators reject the rule, is never part of a saved rule, and is never
\* evaluated to satisfied = true: it evaluates to false with an error.
EmptyRuleNeverAccepted ==
    /\ HasEmptyRule(editedRule) =>
          /\ ~validateAttributeRule(editedRule).isValid
          /\ ~validateRule(editedRule).isValid
    /\ putRequest # None => ~HasEmptyRule(putRequest)
    /\ evaluation # None =>
          \A e \in EvalNodes(evaluation.tree, <<>>) :
             (e.node.type \in Operators /\ Len(e.node.children) = 0) =>
                /\ e.node.satisfied # "true"
                /\ ~e.node.skipped => (e.node.satisfied = "false" /\ e.node.error # "")

\* C1 witness: an empty rule nested two levels below the root was evaluated.
EmptyRuleEvaluatedNested ==
    /\ evaluation # None
    /\ \E e \in EvaluatedRules : Len(e.path) >= 2 /\ Len(e.node.children) = 0

\* C2: in an evaluated AND node whose first child is judged false, every
\* later child is skipped with satisfied = null and receives no oracle call;
\* when that first child is a leaf the oracle is called exactly once below
\* the node, for that leaf.
AndShortCircuit ==
    evaluation # None =>
       \A e \in EvaluatedRules :
          (e.node.type = "AND" /\ Len(e.node.children) >= 1
              /\ e.node.children[1].satisfied = "false") =>
             /\ \A i \in 2..Len(e.node.children) :
                   /\ e.node.children[i].skipped
                   /\ e.node.children[i].satisfied = "null"
                   /\ CallsBelow(Append(e.path, i)) = <<>>
             /\ e.node.children[1].type = "condition" =>
                   CallsBelow(e.path) = <<Append(e.path, 1)>>

\* C2 witness: AND[c1=false, c2, c3] was evaluated.
AndFirstFalseEvaluated ==
    /\ evaluation # None
    /\ evaluation.tree.type = "AND"
    /\ Len(evaluation.tree.children) = 3
    /\ \A i \in 1..3 : evaluation.tree.children[i].type = "condition"
    /\ evaluation.tree.children[1].satisfied = "false"

\* C3: an evaluated OR node takes its children in declared order and stops
\* at the first child judged true: the node is satisfied, the children
\* before it were evaluated and are not true, the children after it are
\* skipped and receive no oracle call.  Without a true child nothing is
\* skipped and the node is not satisfied.
OrShortCircuit ==
    evaluation # None =>
       \A e \in EvaluatedRules :
          e.node.type = "OR" =>
             LET n == Len(e.node.children)
                 trueAt == {i \in 1..n : e.node.children[i].satisfied = "true"}
             IN IF trueAt = {}
                THEN /\ e.node.satisfied = "false"
                     /\ \A i \in 1..n : ~e.node.children[i].skipped
                ELSE \E k \in trueAt :
                     /\ trueAt = {k}
                     /\ e.node.satisfied = "true"
                     /\ \A i \in 1..(k - 1) : ~e.node.children[i].skipped
                     /\ \A i \in (k + 1)..n :
                           /\ e.node.children[i].skipped
                           /\ e.node.children[i].satisfied = "null"
                           /\ CallsBelow(Append(e.path, i)) = <<>>

\* C3 witness: OR[c1=false, c2=true, c3] was evaluated.
OrSecondTrueEvaluated ==
    /\ evaluation # None
    /\ evaluation.tree.type = "OR"
    /\ Len(evaluation.tree.children) = 3
    /\ \A i \in 1..3 : evaluation.tree.children[i].type = "condition"
    /\ evaluation.tree.children[1].satisfied = "false"
    /\ evaluation.tree.children[2].satisfied = "true"

DeliveredResultCarriesErrors ==
    (evaluation # None /\ evaluation.failed # {}) =>
        /\ "error" \in DOMAIN evaluation.delivered
        /\ \A path \in evaluation.failed :
              EvalAt(evaluation.delivered.evaluationTree, path).error # ""

\* The same leaf as a true negative: evaluated, satisfied = false, no error.
TrueNegative(leaf) == [leaf EXCEPT !.satisfied = "false", !.error = ""]

\* C13: a leaf whose judgment failed is delivered with satisfied = null,
\* skipped = false and its error, does not satisfy its parent, and its card
\* differs from the card of a true negative in icon, colour and background
\* and shows the error line, which the card of a true negative does not.
FailedLeafRenderedApart ==
    evaluation # None =>
        \A path \in evaluation.failed :
            LET tree == evaluation.delivered.evaluationTree
                leaf == EvalAt(tree, path)
                parent == EvalAt(tree, SubSeq(path, 1, Len(path) - 1))
                shown == AttributeEvaluationTree(leaf, Len(path))
                negative == AttributeEvaluationTree(TrueNegative(leaf), Len(path))
            IN /\ leaf.satisfied = "null" /\ ~leaf.skipped /\ leaf.error # ""
               /\ parent.type = "AND" => parent.satisfied = "false"
               /\ parent.satisfied = "true" =>
                     \E i \in 1..Len(parent.children) :
                         i # path[Len(path)] /\ parent.children[i].satisfied = "true"
               /\ shown.icon # negative.icon
               /\ shown.color # negative.color
               /\ shown.background # negative.background
               /\ shown.errorLine = leaf.error
               /\ negative.errorLine = ""

\* An evaluation with a failed leaf and a sibling judged false.
FailedAndNegativeLeafShown ==
    /\ evaluation # None
    /\ \E path \in evaluation.failed :
          LET parent == EvalAt(evaluation.tree, SubSeq(path, 1, Len(path) - 1)) IN
          \E i \in 1..Len(parent.children) :
              /\ parent.children[i].type = "condition"
              /\ parent.children[i].satisfied = "false"
              /\ ~parent.children[i].skipped

\* The rule node n and the evaluation node t have the same shape.
RECURSIVE SameShape(_, _)
SameShape(n, t) ==
    /\ t.type = NodeType(n)
    /\ Len(t.children) = Len(n.kids)
    /\ n.kind = "leaf" => t.condition = n.desc
    /\ \A i \in 1..Len(n.kids) : SameShape(n.kids[i], t.children[i])

\* The rule node n and the card drawn for it have the same shape.
RECURSIVE SameShapeShown(_, _)
SameShapeShown(n, card) ==
    /\ card.element = NodeType(n)
    /\ Len(card.children) = Len(n.kids)
    /\ n.kind = "leaf" => card.text = n.desc
    /\ \A i \in 1..Len(n.kids) : SameShapeShown(n.kids[i], card.children[i])

\* C14: the evaluation tree of a rule, the tree delivered to the client
\* and the cards drawn for it have the rule's branching, leaf positions and
\* child order, skipped children included.
EvaluationTreeMirrorsRule ==
    evaluation # None =>
        /\ SameShape(evaluation.rule, evaluation.tree)
        /\ evaluation.delivered.evaluationTree = evaluation.tree
        /\ SameShapeShown(evaluation.rule,
                          AttributeEvaluationTree(evaluation.delivered.evaluationTree, 0))

\* An evaluation in which a nested rule with a child was skipped.
SkippedSubtreeShown ==
    /\ evaluation # None
    /\ \E e \in EvalNodes(evaluation.tree, <<>>) :
          /\ e.node.skipped
          /\ e.node.type \in Operators
          /\ Len(e.node.children) >= 1

(***************************************************************************)
(* Properties of the classification store's setters.                       *)
(***************************************************************************)
\* C15: updateConfig(updates) gives every field present in updates the
\* value it has there and leaves every other field of the config as it
\* was; no field appears or disappears otherwise.
UpdateConfigChangesOnlyUpdates ==
    [][\A updates \in ConfigUpdates :
          updateConfig(updates) =>
              /\ DOMAIN config' = DOMAIN config \cup DOMAIN updates
              /\ \A f \in DOMAIN updates : config'[f] = updates[f]
              /\ \A f \in DOMAIN config \ DOMAIN updates : config'[f] = config[f]
      ]_vars

\* The store test's update { useReranking: true, topKCandidates: 10 }
\* applied to the default config.
TwoFieldsUpdated ==
    /\ config.useReranking
    /\ config.topKCandidates = 10
    /\ ~config.useAttributeValidation
    /\ config.rerankingModel = defaultConfig.rerankingModel

ThreeFieldConfig ==
    [useReranking |-> FALSE, useAttributeValidation |-> FALSE, topKCandidates |-> 5]

HistoryNewestFirstBounded ==
    /\ Len(resultHistory) <= HistoryLimit
    /\ resultHistory # <<>> =>
          /\ \A i \in 1..Len(resultHistory) :
                resultHistory[i].id = Head(resultHistory).id - (i - 1)
          /\ Len(resultHistory) =
                IF Head(resultHistory).id < HistoryLimit
                THEN Head(resultHistory).id ELSE HistoryLimit

\* One result more than the limit was added: the oldest one is gone.
OldestResultDropped ==
    /\ Len(resultHistory) = HistoryLimit
    /\ Head(resultHistory).id = HistoryLimit + 1
    /\ resultHistory[HistoryLimit].id = 2

(***************************************************************************)
(* Properties of the classification options panel.                         *)
(***************************************************************************)
\* No attributes are stored for the selected dataset, or none is selected.
NoAttributes ==
    page.selectedDataset = None \/ ~HasAttributes(page.selectedDataset.id)

\* C18: while no attributes exist for the currently selected dataset, no
\* step of the panel hands on a config that switches attribute validation
\* on.
ValidationNotEnabledWithoutAttributes ==
    [][(/\ NoAttributes
        /\ ~config.useAttributeValidation)
          => \A k \in 1..Len(emitted') : ~emitted'[k].useAttributeValidation
      ]_vars

\* C19: (a) a check that began with validation enabled and fails or finds
\* no attributes hands on the config it began with, validation disabled,
\* and leaves validation disabled; (b) validation is never left enabled
\* while no dataset is selected; (c) validation that is enabled while no
\* attributes exist for the selected dataset, or none is selected, is
\* disabled in the end.
ValidationDisabledWithoutAttributes ==
    /\ [][(/\ checked' # None
           /\ checked'.config.useAttributeValidation
           /\ checked'.outcome # "exist")
             => /\ emitted' # <<>>
                /\ emitted'[1] = [checked'.config EXCEPT !.useAttributeValidation = FALSE]
                /\ ~config'.useAttributeValidation
         ]_vars
    /\ [](page.selectedDataset = None => ~config.useAttributeValidation)
    /\ (config.useAttributeValidation /\ NoAttributes) ~> ~config.useAttributeValidation

\* A check for a dataset without attributes, begun with validation
\* enabled, has just switched validation off.
ValidationSwitchedOffByCheck ==
    /\ checked # None
    /\ checked.outcome = "none"
    /\ checked.config.useAttributeValidation
    /\ emitted # <<>>
    /\ ~config.useAttributeValidation

(***************************************************************************)
(* Properties of the dataset editor.                                       *)
(***************************************************************************)
\* C20: cancelling the edit of a class whose name and description are both
\* empty removes that class from the editor's class list.
CancelRemovesEmptyClass ==
    [][\A classId \in 0..MaxNewClasses :
          (/\ handleCancelEdit(classId)
           /\ ClassWithId(classId).name = ""
           /\ ClassWithId(classId).description = "")
             => classId \notin ClassIds(editor'.classes)
      ]_vars

\* C21: in edit mode 'Add New Class' leaves the editor auto-saving, the
\* 'Saving...' indicator shown.
AddClassShowsSaving ==
    [][(handleAddClass /\ editor.mode = "edit") => SavingShown']_vars

(***************************************************************************)
(* Properties of overlapping classification calls.                         *)
(***************************************************************************)
\* C22: isClassifying is true exactly while a classifyText or classifyPDF
\* call is in flight, and false once every call has returned.
ClassifyingWhileInFlight == isClassifying <=> InFlight # {}

(***************************************************************************)
(* Properties of the dataset editor's auto-save.                           *)
(***************************************************************************)
\* The classes of a list that were saved on their card at least once: a
\* class added and never saved has neither name nor description.
SavedClasses(classList) ==
    LET RECURSIVE Kept(_)
        Kept(i) == IF i > Len(classList) THEN <<>>
                   ELSE (IF classList[i].name # "" THEN <<classList[i]>> ELSE <<>>)
                        \o Kept(i + 1)
    IN  Kept(1)

\* C23: in edit mode, once no auto-save timer is pending and no request
\* unanswered, the class list last sent to the backend is the editor's
\* class list (classes added and not saved on their card set aside, which
\* no auto-save is started for).
LastSentIsCurrent ==
    (/\ editor.mode = "edit"
     /\ debounced = None
     /\ removalTimers = <<>>
     /\ requests = 0
     /\ lastSent # None)
        => SavedClasses(lastSent.classes) = SavedClasses(editor.classes)

(***************************************************************************)
(* Properties of the attribute store and of the ApiClient.                 *)
(***************************************************************************)
\* C24: generationProgress is null whenever isGenerating is false.
ProgressOnlyWhileGenerating ==
    ~attributeStore.isGenerating => attributeStore.generationProgress = None

\* The retryAttempts of the client configuration, 3 if none is given.
ConfiguredRetries ==
    IF apiClient.given.retryAttempts = Undefined THEN 3
    ELSE apiClient.given.retryAttempts

\* C25: one call makes at most retryAttempts + 1 attempts, retryAttempts
\* being the configured value (3 if none is given, so that 0 gives one
\* attempt), and a call whose last attempt failed returns a failure
\* response.
AttemptsWithinConfigured ==
    /\ apiCall.made <= ConfiguredRetries + 1
    /\ apiCall.pc = "returned" => apiCall.result \in {"response", "failure"}

====
